---- MODULE Spec2Model ----
(***************************************************************************)
(* Frame Streams reader (rust-fstrm): the frame codec of src/control.rs,   *)
(* src/lib.rs, src/writer.rs and the reader sessions of src/reader.rs.     *)
(* The transport is a finite byte sequence followed by end of input; the   *)
(* bytes are read through a std::io::BufReader, writes go straight to the  *)
(* underlying transport.                                                   *)
(***************************************************************************)
EXTENDS Integers, Sequences, FiniteSets, TLC

(***************************************************************************)
(* Bounds of the model.                                                    *)
(***************************************************************************)
\* greatest number of CONTENT_TYPE fields the peer puts in a READY frame
MaxFields == 2
\* greatest number of data frames the peer sends before it ends the stream
MaxData == 2
\* greatest number of calls of Iterator::next on one session
MaxNext == 3

(***************************************************************************)
(* Program constants.                                                      *)
(***************************************************************************)
FSTRM_CONTROL_ACCEPT == 1
FSTRM_CONTROL_START == 2
FSTRM_CONTROL_STOP == 3
FSTRM_CONTROL_READY == 4
FSTRM_CONTROL_FINISH == 5
FSTRM_CONTROL_FIELD_CONTENT_TYPE == 1
FRAME_LENGTH_MAX == 512
FIELD_CONTENT_TYPE_LENGTH_MAX == 256
FSTRM_LENGTH_SIZE == 4
\* size_of::<u32>() of Discriminant::<u32>::discriminant_size
discriminant_size == 4
\* capacity of the BufReader made by Builder::new (BufReader::new)
DEFAULT_BUF_SIZE == 8192

(***************************************************************************)
(* Values: errors, fields, control data, control frames, frames.           *)
(***************************************************************************)
NoError == "NoError"
FrameFormatError == "FrameFormatError"
TodoError == "TodoError"
\* Error::OtherError wrapping a std::io::Error (end of input, closed sink)
OtherError == "OtherError"

\* enum Data { Empty, Field(Field), Fields(Vec<Field>) }; a Field is the
\* ContentType it wraps, a ContentType the byte string it wraps.
DataEmpty == [kind |-> "Empty", fields |-> <<>>]
DataField(field) == [kind |-> "Field", fields |-> <<field>>]
DataFields(fields) == [kind |-> "Fields", fields |-> fields]

\* impl From<Vec<Field>> for Data
DataFromVec(fields) ==
  CASE Len(fields) = 0 -> DataEmpty
    [] Len(fields) = 1 -> DataField(fields[Len(fields)])
    [] OTHER -> DataFields(fields)

\* impl From<Data> for Vec<Field>
VecFromData(data) == data.fields

\* enum Control
Accept(data) == [type |-> "Accept", data |-> data]
Start(data) == [type |-> "Start", data |-> data]
Stop == [type |-> "Stop", data |-> DataEmpty]
Ready(data) == [type |-> "Ready", data |-> data]
Finish == [type |-> "Finish", data |-> DataEmpty]

\* enum Frame
FrameData(payload) == [tag |-> "Data", payload |-> payload, control |-> Stop]
FrameControl(control) == [tag |-> "Control", payload |-> <<>>, control |-> control]

(***************************************************************************)
(* Byte I/O.  A reader r is [inp, nbuf, chunk]: inp the bytes not yet      *)
(* consumed, of which the first nbuf are held in the BufReader's buffer;   *)
(* every read of the underlying transport returns at most chunk bytes.     *)
(***************************************************************************)
Min(a, b) == IF a < b THEN a ELSE b

Drop(s, n) == SubSeq(s, n + 1, Len(s))

Take(s, n) == SubSeq(s, 1, n)

\* WriteBytesExt::write_u32::<BigEndian>
U32(v) == << (v \div 16777216) % 256, (v \div 65536) % 256, (v \div 256) % 256, v % 256 >>

\* ReadBytesExt::read_u32::<BigEndian> of four bytes
FromU32(b) == b[1] * 16777216 + b[2] * 65536 + b[3] * 256 + b[4]

Ok(val, r) == [err |-> NoError, val |-> val, r |-> r]
Err(err, r) == [err |-> err, val |-> <<>>, r |-> r]

\* BufReader::read_exact: serve n bytes from the buffer, refilling it from
\* the transport (one read of at most min(chunk, capacity) bytes at a time)
\* whenever it is empty; end of input before n bytes is an io::Error.
read_exact(r, n) ==
  IF n <= r.nbuf
    THEN Ok(Take(r.inp, n), [r EXCEPT !.inp = Drop(r.inp, n), !.nbuf = r.nbuf - n])
    ELSE IF Len(r.inp) < n
      THEN Err(OtherError, [r EXCEPT !.inp = <<>>, !.nbuf = 0])
      ELSE LET fill == Min(r.chunk, DEFAULT_BUF_SIZE)
               more == n - r.nbuf
               rest == Len(r.inp) - r.nbuf
               fills == (more + fill - 1) \div fill
               got == Min(fills * fill, rest)
           IN Ok(Take(r.inp, n), [r EXCEPT !.inp = Drop(r.inp, n), !.nbuf = got - more])

\* BufReader::consume (BufRead): advances inside the buffer only
consume(r, len) ==
  LET k == Min(len, r.nbuf)
  IN [r EXCEPT !.inp = Drop(r.inp, k), !.nbuf = r.nbuf - k]

\* Read::read_frame_value
read_frame_value(r) ==
  LET value(b) == IF b.err # NoError THEN b ELSE Ok(FromU32(b.val), b.r)
  IN value(read_exact(r, 4))

\* Read::read_frame_data_for_len
read_frame_data_for_len(r, len) == read_exact(r, len)

(***************************************************************************)
(* Frame codec: decoding.  A step that uses the result x of a call is      *)
(* written LET step(x) == ... IN step(call).                               *)
(***************************************************************************)
\* Field::body_size
Field_body_size(field) == Len(field)

\* Field::size
Field_size(field) == discriminant_size + FSTRM_LENGTH_SIZE + Field_body_size(field)

\* Field::decode with a length check that refuses the greatest length itself
Field_decode_exclusive(r) ==
  LET body(len) ==
        IF len.err # NoError THEN len
        ELSE IF len.val >= FIELD_CONTENT_TYPE_LENGTH_MAX
          THEN Err(FrameFormatError, len.r)
          ELSE read_frame_data_for_len(len.r, len.val)
      tagged(t) ==
        IF t.err # NoError THEN t
        ELSE IF t.val = FSTRM_CONTROL_FIELD_CONTENT_TYPE
          THEN body(read_frame_value(t.r))
          ELSE Err(FrameFormatError, t.r)
  IN tagged(read_frame_value(r))

\* Field::decode
Field_decode(r) ==
  LET body(len) ==
        IF len.err # NoError THEN len
        ELSE IF len.val > FIELD_CONTENT_TYPE_LENGTH_MAX
          THEN Err(FrameFormatError, len.r)
          ELSE read_frame_data_for_len(len.r, len.val)
      tagged(t) ==
        IF t.err # NoError THEN t
        ELSE IF t.val = FSTRM_CONTROL_FIELD_CONTENT_TYPE
          THEN body(read_frame_value(t.r))
          ELSE Err(FrameFormatError, t.r)
  IN tagged(read_frame_value(r))

\* Control::decode, the FSTRM_CONTROL_START arm
DecodeStart(r, len) ==
  LET sized(field, l) ==
        IF l < len THEN Ok(Start(DataField(field.val)), consume(field.r, len - l))
        ELSE IF l <= len THEN Ok(Start(DataField(field.val)), field.r)
        ELSE Err(TodoError, field.r)
      decoded(field) ==
        IF field.err # NoError THEN field ELSE sized(field, Field_size(field.val))
  IN IF len = 0 THEN Ok(Start(DataEmpty), r)
     ELSE IF len < discriminant_size THEN Err(FrameFormatError, consume(r, len))
     ELSE decoded(Field_decode(r))

\* Control::decode, the loop of the FSTRM_CONTROL_ACCEPT | FSTRM_CONTROL_READY arm
RECURSIVE DecodeFields(_, _, _)
DecodeFields(r, len, fields) ==
  LET sized(field, l) ==
        IF l > len THEN Err(TodoError, field.r)
        ELSE DecodeFields(field.r, len - l, Append(fields, field.val))
      decoded(field) ==
        IF field.err # NoError THEN field ELSE sized(field, Field_size(field.val))
  IN IF len > 0
       THEN IF len < discriminant_size THEN Err(FrameFormatError, consume(r, len))
            ELSE decoded(Field_decode(r))
       ELSE Ok(fields, r)

\* Control::decode with a length check that refuses FRAME_LENGTH_MAX itself
Control_decode_exclusive(r) ==
  LET listed(d, fs) ==
        IF fs.err # NoError THEN fs
        ELSE IF d.val = FSTRM_CONTROL_ACCEPT
          THEN Ok(Accept(DataFromVec(fs.val)), fs.r)
          ELSE Ok(Ready(DataFromVec(fs.val)), fs.r)
      typed(d, l) ==
        IF d.err # NoError THEN d
        ELSE CASE d.val = FSTRM_CONTROL_FINISH /\ l = 0 -> Ok(Finish, d.r)
               [] d.val = FSTRM_CONTROL_STOP /\ l = 0 -> Ok(Stop, d.r)
               [] d.val = FSTRM_CONTROL_START -> DecodeStart(d.r, l)
               [] d.val \in {FSTRM_CONTROL_ACCEPT, FSTRM_CONTROL_READY} ->
                    listed(d, DecodeFields(d.r, l, <<>>))
               [] OTHER ->
                    Err(FrameFormatError, IF l > 0 THEN consume(d.r, l) ELSE d.r)
      measured(len) ==
        IF len.err # NoError THEN len
        ELSE IF len.val >= FRAME_LENGTH_MAX \/ len.val < discriminant_size
          THEN Err(FrameFormatError, consume(len.r, len.val))
          ELSE typed(read_frame_value(len.r), len.val - discriminant_size)
  IN measured(read_frame_value(r))

\* Control::decode
Control_decode(r) ==
  LET listed(d, fs) ==
        IF fs.err # NoError THEN fs
        ELSE IF d.val = FSTRM_CONTROL_ACCEPT
          THEN Ok(Accept(DataFromVec(fs.val)), fs.r)
          ELSE Ok(Ready(DataFromVec(fs.val)), fs.r)
      typed(d, l) ==
        IF d.err # NoError THEN d
        ELSE CASE d.val = FSTRM_CONTROL_FINISH /\ l = 0 -> Ok(Finish, d.r)
               [] d.val = FSTRM_CONTROL_STOP /\ l = 0 -> Ok(Stop, d.r)
               [] d.val = FSTRM_CONTROL_START -> DecodeStart(d.r, l)
               [] d.val \in {FSTRM_CONTROL_ACCEPT, FSTRM_CONTROL_READY} ->
                    listed(d, DecodeFields(d.r, l, <<>>))
               [] OTHER ->
                    Err(FrameFormatError, IF l > 0 THEN consume(d.r, l) ELSE d.r)
      measured(len) ==
        IF len.err # NoError THEN len
        ELSE IF len.val > FRAME_LENGTH_MAX \/ len.val < discriminant_size
          THEN Err(FrameFormatError, consume(len.r, len.val))
          ELSE typed(read_frame_value(len.r), len.val - discriminant_size)
  IN measured(read_frame_value(r))

\* Read::read_frame (read_frame_header, then the data or the control frame)
read_frame(r) ==
  LET data(p) == IF p.err # NoError THEN p ELSE Ok(FrameData(p.val), p.r)
      control(c) == IF c.err # NoError THEN c ELSE Ok(FrameControl(c.val), c.r)
      headed(h) ==
        IF h.err # NoError THEN h
        ELSE IF h.val # 0
          THEN data(read_frame_data_for_len(h.r, h.val))
          ELSE control(Control_decode(h.r))
  IN headed(read_frame_value(r))

(***************************************************************************)
(* Frame codec: encoding, as the bytes handed to the writer.               *)
(***************************************************************************)
RECURSIVE Concat(_)
Concat(ss) == IF ss = <<>> THEN <<>> ELSE Head(ss) \o Concat(Tail(ss))

\* Field::encode
Field_encode(field) ==
  U32(FSTRM_CONTROL_FIELD_CONTENT_TYPE) \o U32(Field_body_size(field)) \o field

\* Data::size
RECURSIVE Data_size_sum(_)
Data_size_sum(fields) ==
  IF fields = <<>> THEN 0 ELSE Field_size(Head(fields)) + Data_size_sum(Tail(fields))

Data_size(data) ==
  CASE data.kind = "Empty" -> 0
    [] data.kind = "Field" -> Field_size(data.fields[1])
    [] OTHER -> Data_size_sum(data.fields)

\* Data::encode
Data_encode(data) ==
  CASE data.kind = "Empty" -> <<>>
    [] data.kind = "Field" -> Field_encode(data.fields[1])
    [] OTHER -> Concat([i \in 1..Len(data.fields) |-> Field_encode(data.fields[i])])

\* Discriminant::discriminant of a Control
Control_discriminant(c) ==
  CASE c.type = "Accept" -> FSTRM_CONTROL_ACCEPT
    [] c.type = "Start" -> FSTRM_CONTROL_START
    [] c.type = "Stop" -> FSTRM_CONTROL_STOP
    [] c.type = "Ready" -> FSTRM_CONTROL_READY
    [] OTHER -> FSTRM_CONTROL_FINISH

\* Control::body_size
Control_body_size(c) ==
  discriminant_size
    + (IF c.type \in {"Accept", "Start", "Ready"} THEN Data_size(c.data) ELSE 0)

\* a size that leaves out the length word
Control_size_body(c) == Control_body_size(c)

\* Control::size
Control_size(c) == FSTRM_LENGTH_SIZE + Control_body_size(c)

\* Control::encode
Control_encode(c) ==
  U32(Control_body_size(c)) \o U32(Control_discriminant(c))
    \o (IF c.type \in {"Accept", "Start", "Ready"} THEN Data_encode(c.data) ELSE <<>>)

\* Frame::encode
Frame_encode(f) ==
  IF f.tag = "Data"
    THEN U32(Len(f.payload)) \o f.payload
    ELSE U32(0) \o Control_encode(f.control)

\* Data::filter; the closure f is given as a function on the fields of data
Data_filter(data, f) ==
  CASE data.kind = "Field" /\ f[data.fields[1]] -> DataField(data.fields[1])
    [] data.kind = "Fields" ->
         DataFromVec(SelectSeq(data.fields, LAMBDA x : f[x]))
    [] OTHER -> DataEmpty

(***************************************************************************)
(* Sessions (src/reader.rs).                                               *)
(***************************************************************************)
\* Option<ContentType>
None == [some |-> FALSE, val |-> <<>>]
Some(x) == [some |-> TRUE, val |-> x]

\* Vec::contains with the byte-wise PartialEq of ContentType
contains(v, x) == \E i \in 1..Len(v) : v[i] = x

\* BaseReader::new without the check of the allow-list
BaseReader_new_any(start, types) ==
  CASE start.kind = "Empty" -> [made |-> TRUE, content_type |-> None]
    [] start.kind = "Field" -> [made |-> TRUE, content_type |-> Some(start.fields[1])]
    [] OTHER -> [made |-> FALSE, content_type |-> None]

\* BaseReader::new: the content type of the new reader, or no reader
BaseReader_new(start, types) ==
  CASE start.kind = "Empty" -> [made |-> TRUE, content_type |-> None]
    [] start.kind = "Field" /\ (Len(types) = 0 \/ contains(types, start.fields[1])) ->
         [made |-> TRUE, content_type |-> Some(start.fields[1])]
    [] OTHER -> [made |-> FALSE, content_type |-> None]

\* entries of the I/O history of a session
NoFrame == [tag |-> "None", payload |-> <<>>, control |-> Stop]
ReadEvent(res) ==
  [op |-> "read", err |-> res.err, frame |-> IF res.err = NoError THEN res.val ELSE NoFrame]
WriteEvent(f, sink) ==
  [op |-> "write", err |-> IF sink THEN NoError ELSE OtherError, frame |-> f]

\* the frames written so far, in order
RECURSIVE Writes(_)
Writes(h) ==
  IF h = <<>> THEN <<>>
  ELSE IF Head(h).op = "write" /\ Head(h).err = NoError
    THEN <<Head(h).frame>> \o Writes(Tail(h))
    ELSE Writes(Tail(h))

\* outcome of a build(): the error returned or the reader made, the state
\* of the byte source, the bytes written and the I/O done
Outcome(error, variant, ct, r, bytes, events) ==
  [error |-> error, variant |-> variant, content_type |-> ct, r |-> r,
   bytes |-> bytes, events |-> events]

\* an ACCEPT that carries the allow-list instead of the filtered READY
AcceptFor_allowlist(data, types) == FrameControl(Accept(DataFromVec(types)))

\* the frame of ACCEPT written by bi_directional::Build::build for a READY
AcceptFor(data, types) ==
  FrameControl(Accept(Data_filter(data,
    [x \in {data.fields[i] : i \in 1..Len(data.fields)} |-> contains(types, x)])))

\* the reader of a build that has read START, or the refusal of BaseReader::new
Made(base, variant, r, bytes, events) ==
  IF base.made
    THEN Outcome(NoError, variant, base.content_type, r, bytes, events)
    ELSE Outcome(TodoError, "None", None, r, bytes, events)

\* uni_directional::Build::build
uni_build(r, types) ==
  LET got(f, ev) ==
        IF f.err # NoError THEN Outcome(f.err, "None", None, f.r, <<>>, ev)
        ELSE IF f.val.tag = "Control" /\ f.val.control.type = "Start"
          THEN Made(BaseReader_new(f.val.control.data, types), "Base", f.r, <<>>, ev)
          ELSE Outcome(TodoError, "None", None, f.r, <<>>, ev)
      first(f) == got(f, <<ReadEvent(f)>>)
  IN first(read_frame(r))

\* the Control::Ready arm with START read before ACCEPT is written
bi_build_ready_startfirst(r, types, sink, data, ev) ==
  LET got(accept, bytes, f, ev2, ev3) ==
        IF f.err # NoError THEN Outcome(f.err, "None", None, f.r, <<>>, ev2)
        ELSE IF ~sink THEN Outcome(OtherError, "None", None, f.r, <<>>, ev3)
        ELSE IF f.val.tag = "Control" /\ f.val.control.type = "Start"
          THEN Made(BaseReader_new(f.val.control.data, types), "BiDirectional",
                    f.r, bytes, ev3)
          ELSE Outcome(TodoError, "None", None, f.r, bytes, ev3)
      second(accept, f) ==
        got(accept, Frame_encode(accept), f, Append(ev, ReadEvent(f)),
            Append(Append(ev, ReadEvent(f)), WriteEvent(accept, sink)))
  IN second(AcceptFor(data, types), read_frame(r))

\* a Control::Ready arm that writes ACCEPT twice
bi_build_ready_twice(r, types, sink, data, ev) ==
  LET got(bytes, f, ev3) ==
        IF f.err # NoError THEN Outcome(f.err, "None", None, f.r, bytes, ev3)
        ELSE IF f.val.tag = "Control" /\ f.val.control.type = "Start"
          THEN Made(BaseReader_new(f.val.control.data, types), "BiDirectional",
                    f.r, bytes, ev3)
          ELSE Outcome(TodoError, "None", None, f.r, bytes, ev3)
      second(bytes, f, ev2) == got(bytes, f, Append(ev2, ReadEvent(f)))
      written(accept, ev2) ==
        IF ~sink THEN Outcome(OtherError, "None", None, r, <<>>, ev2)
        ELSE second(Frame_encode(accept) \o Frame_encode(accept), read_frame(r), ev2)
      accepted(accept) ==
        written(accept, ev \o <<WriteEvent(accept, sink), WriteEvent(accept, sink)>>)
  IN accepted(AcceptFor(data, types))

\* bi_directional::Build::build, the Control::Ready arm
bi_build_ready(r, types, sink, data, ev) ==
  LET got(bytes, f, ev3) ==
        IF f.err # NoError THEN Outcome(f.err, "None", None, f.r, bytes, ev3)
        ELSE IF f.val.tag = "Control" /\ f.val.control.type = "Start"
          THEN Made(BaseReader_new(f.val.control.data, types), "BiDirectional",
                    f.r, bytes, ev3)
          ELSE Outcome(TodoError, "None", None, f.r, bytes, ev3)
      second(bytes, f, ev2) == got(bytes, f, Append(ev2, ReadEvent(f)))
      written(accept, ev2) ==
        IF ~sink THEN Outcome(OtherError, "None", None, r, <<>>, ev2)
        ELSE second(Frame_encode(accept), read_frame(r), ev2)
      accepted(accept) == written(accept, Append(ev, WriteEvent(accept, sink)))
  IN accepted(AcceptFor(data, types))

\* bi_directional::Build::build
bi_build(r, types, sink) ==
  LET got(f, ev) ==
        IF f.err # NoError THEN Outcome(f.err, "None", None, f.r, <<>>, ev)
        ELSE IF f.val.tag = "Control" /\ f.val.control.type = "Start"
          THEN Made(BaseReader_new(f.val.control.data, types), "UniDirectional",
                    f.r, <<>>, ev)
        ELSE IF f.val.tag = "Control" /\ f.val.control.type = "Ready"
          THEN bi_build_ready(f.r, types, sink, f.val.control.data, ev)
        ELSE Outcome(TodoError, "None", None, f.r, <<>>, ev)
      first(f) == got(f, <<ReadEvent(f)>>)
  IN first(read_frame(r))

\* results of Iterator::next: Some(Ok(payload)), Some(Err(err)), None
YieldPayload(p) == [kind |-> "Payload", payload |-> p, err |-> NoError]
YieldErr(e) == [kind |-> "Err", payload |-> <<>>, err |-> e]
YieldNone == [kind |-> "None", payload |-> <<>>, err |-> NoError]

\* BaseReader::next without the arm of Control::Stop
next_item_nostop(f) ==
  CASE f.err = NoError /\ f.val.tag = "Data" -> YieldPayload(f.val.payload)
    [] f.err = NoError -> YieldErr(TodoError)
    [] OTHER -> YieldErr(f.err)

\* BaseReader::next taking every control frame for the end of the stream
next_item_anycontrol(f) ==
  CASE f.err = NoError /\ f.val.tag = "Data" -> YieldPayload(f.val.payload)
    [] f.err = NoError -> YieldNone
    [] OTHER -> YieldErr(f.err)

\* BaseReader::next, on the result of its read_frame
next_item(f) ==
  CASE f.err = NoError /\ f.val.tag = "Data" -> YieldPayload(f.val.payload)
    [] f.err = NoError /\ f.val.tag = "Control" /\ f.val.control.type = "Stop" -> YieldNone
    [] f.err = NoError -> YieldErr(TodoError)
    [] OTHER -> YieldErr(f.err)

(***************************************************************************)
(* The inputs of the model.                                                *)
(***************************************************************************)
ctA == <<97>>
ctB == <<97, 98>>
ContentTypes == {ctA, ctB}

\* n bytes of content
Bytes(n) == [i \in 1..n |-> 97]

\* content types of the greatest length and around the greatest body
ct256 == Bytes(FIELD_CONTENT_TYPE_LENGTH_MAX)
ct236 == Bytes(236)
ct237 == Bytes(237)

\* the allow-lists given to Builder::new
AllowLists == {<<>>, <<ctA>>, <<ctB>>, <<ctA, ctB>>, <<ct256, ct236, ct237>>}

payload1 == <<1>>
payload2 == <<2, 3>>

SeqsUpTo(S, n) == UNION {[1..k -> S] : k \in 0..n}

\* the field lists of the READY frames of the peer
Offers == SeqsUpTo(ContentTypes, MaxFields)

StartFrames ==
  {FrameControl(Start(DataEmpty))} \cup {FrameControl(Start(DataField(t))) : t \in ContentTypes}
ReadyFrames == {FrameControl(Ready(DataFromVec(p))) : p \in Offers}
OtherFirst == {FrameData(payload1), FrameControl(Stop)}

\* what the peer sends after START: data frames, then possibly a control
\* frame, then possibly one more frame
DataFrames == {FrameData(payload1), FrameData(payload2)}
Terminators ==
  {FrameControl(Stop), FrameControl(Finish), FrameControl(Accept(DataEmpty)),
   FrameControl(Start(DataEmpty)), FrameControl(Ready(DataEmpty))}
Trailers == {FrameData(payload1), FrameControl(Stop)}
Tails ==
  {d \o c \o x : d \in SeqsUpTo(DataFrames, MaxData),
                 c \in {<<>>} \cup {<<f>> : f \in Terminators},
                 x \in {<<>>} \cup {<<f>> : f \in Trailers}}

\* handshakes of the peer that end with START, and the others
GoodHeads ==
  {<<s>> : s \in StartFrames} \cup {<<y, s>> : y \in ReadyFrames, s \in StartFrames}
BadHeads ==
  {<<>>} \cup {<<f>> : f \in OtherFirst} \cup {<<y>> : y \in ReadyFrames}
    \cup {<<y, f>> : y \in ReadyFrames, f \in OtherFirst}

\* The reader made by a handshake keeps the byte source and the content
\* type only, so every handshake is followed by a short stream and the
\* plain handshakes by every stream.
ShortTails == {<<>>, <<FrameData(payload1)>>, <<FrameControl(Stop)>>}
PlainHeads ==
  {<<FrameControl(Start(DataEmpty))>>, <<FrameControl(Start(DataField(ctA)))>>,
   <<FrameControl(Ready(DataField(ctA))), FrameControl(Start(DataField(ctA)))>>}

\* a READY with a body of FRAME_LENGTH_MAX bytes, alone and before START
BigReady == FrameControl(Ready(DataFields(<<ct256, ct236>>)))
BigHeads == {<<BigReady>>, <<BigReady, FrameControl(Start(DataField(ct256)))>>}

FrameSeqs ==
  {h \o t : h \in GoodHeads, t \in ShortTails}
    \cup {h \o t : h \in PlainHeads, t \in Tails}
    \cup BadHeads
    \cup BigHeads

\* the bytes of a sequence of frames
Wire(fs) == Concat([i \in 1..Len(fs) |-> Frame_encode(fs[i])])

\* sizes of the reads of the underlying transport: a stream socket that
\* delivers a few bytes at a time, or a slice or file that fills the buffer
Chunks == {3, DEFAULT_BUF_SIZE}

(***************************************************************************)
(* State.                                                                  *)
(***************************************************************************)
VARIABLES
  mode,           \* "uni": uni_directional::Build, "bidi": bi_directional::Build
  content_types,  \* Builder.content_types
  sent,           \* the frames the peer sends (history)
  wire,           \* the bytes put on the transport for the reader (history)
  rd,             \* the byte source: Builder.buf_reader
  out,            \* the bytes written to the transport
  wok,            \* the transport accepts writes
  phase,          \* "Ready": builder made; "Started": reader made;
                  \* "Failed": build returned Err; "Dropped": reader dropped
  variant,        \* "Base", "UniDirectional", "BiDirectional", or "None"
  content_type,   \* BaseReader.content_type
  error,          \* the Err returned by build, or NoError
  log,            \* the reads and writes done so far (history)
  results         \* the results of the calls of next so far (history)

vars == <<mode, content_types, sent, wire, rd, out, wok, phase, variant,
          content_type, error, log, results>>

Init ==
  /\ mode \in {"uni", "bidi"}
  /\ content_types \in AllowLists
  /\ sent \in FrameSeqs
  /\ wire = Wire(sent)
  /\ \E c \in Chunks : rd = [inp |-> wire, nbuf |-> 0, chunk |-> c]
  /\ out = <<>>
  /\ wok = TRUE
  /\ phase = "Ready"
  /\ variant = "None"
  /\ content_type = None
  /\ error = NoError
  /\ log = <<>>
  /\ results = <<>>

\* builder.build()
Build ==
  /\ phase = "Ready"
  /\ LET returned(o) ==
           /\ rd' = o.r
           /\ out' = out \o o.bytes
           /\ log' = log \o o.events
           /\ error' = o.error
           /\ variant' = o.variant
           /\ content_type' = o.content_type
           /\ phase' = IF o.error = NoError THEN "Started" ELSE "Failed"
     IN returned(IF mode = "uni" THEN uni_build(rd, content_types)
                 ELSE bi_build(rd, content_types, wok))
  /\ UNCHANGED <<mode, content_types, sent, wire, wok, results>>

\* reader.next()
NextFrame ==
  /\ phase = "Started"
  /\ Len(results) < MaxNext
  /\ LET read(f) ==
           /\ rd' = f.r
           /\ log' = Append(log, ReadEvent(f))
           /\ results' = Append(results, next_item(f))
     IN read(read_frame(rd))
  /\ UNCHANGED <<mode, content_types, sent, wire, out, wok, phase, variant, content_type, error>>

\* a drop that writes FINISH only after a clean end of the stream
DropReader_afterstop ==
  /\ phase = "Started"
  /\ phase' = "Dropped"
  /\ IF variant = "BiDirectional" /\ \E k \in 1..Len(results) : results[k] = YieldNone
       THEN /\ log' = Append(log, WriteEvent(FrameControl(Finish), wok))
            /\ out' = IF wok THEN out \o Frame_encode(FrameControl(Finish)) ELSE out
       ELSE UNCHANGED <<log, out>>
  /\ UNCHANGED <<mode, content_types, sent, wire, rd, wok, variant, content_type, error, results>>

\* a drop that hands the failure of the write of FINISH to the caller
DropReader_propagate ==
  /\ phase = "Started"
  /\ phase' = "Dropped"
  /\ IF variant = "BiDirectional"
       THEN /\ log' = Append(log, WriteEvent(FrameControl(Finish), wok))
            /\ out' = IF wok THEN out \o Frame_encode(FrameControl(Finish)) ELSE out
            /\ error' = IF wok THEN error ELSE OtherError
       ELSE UNCHANGED <<log, out, error>>
  /\ UNCHANGED <<mode, content_types, sent, wire, rd, wok, variant, content_type, results>>

\* a drop that writes FINISH for every reader of a bi-directional builder
DropReader_anyvariant ==
  /\ phase = "Started"
  /\ phase' = "Dropped"
  /\ IF variant \in {"BiDirectional", "UniDirectional"}
       THEN /\ log' = Append(log, WriteEvent(FrameControl(Finish), wok))
            /\ out' = IF wok THEN out \o Frame_encode(FrameControl(Finish)) ELSE out
       ELSE UNCHANGED <<log, out>>
  /\ UNCHANGED <<mode, content_types, sent, wire, rd, wok, variant, content_type, error, results>>

\* the reader goes out of scope: Drop for bi_directional::Reader; the
\* uni_directional::Reader is a BaseReader, which has no Drop
DropReader ==
  /\ phase = "Started"
  /\ phase' = "Dropped"
  /\ IF variant = "BiDirectional"
       THEN /\ log' = Append(log, WriteEvent(FrameControl(Finish), wok))
            /\ out' = IF wok THEN out \o Frame_encode(FrameControl(Finish)) ELSE out
       ELSE UNCHANGED <<log, out>>
  /\ UNCHANGED <<mode, content_types, sent, wire, rd, wok, variant, content_type, error, results>>

\* the peer closes the connection: writes fail from now on
PeerClose ==
  /\ mode = "bidi"
  /\ wok
  /\ phase \in {"Ready", "Started"}
  /\ wok' = FALSE
  /\ UNCHANGED <<mode, content_types, sent, wire, rd, out, phase, variant, content_type,
                 error, log, results>>

Next == Build \/ NextFrame \/ DropReader \/ PeerClose

Spec == Init /\ [][Next]_vars

(***************************************************************************)
(* The codec alone: frames are encoded onto a transport that may already   *)
(* hold bytes of the peer, then read_frame is called on it.                *)
(***************************************************************************)
\* greatest number of frames encoded onto an empty transport
MaxEncode == 2
\* greatest number of calls of read_frame
MaxReads == 3

\* the bytes of a field and of a control frame as a peer can put them on the
\* wire: tag, declared length and body are free
RawField(tag, len, body) == U32(tag) \o U32(len) \o body
RawControl(len, type, body) == U32(0) \o U32(len) \o U32(type) \o body

\* the frames given to Frame::encode
CodecFrames ==
  {FrameData(payload1), FrameData(payload2), FrameData(<<>>),
   FrameControl(Stop), FrameControl(Finish),
   FrameControl(Start(DataEmpty)), FrameControl(Start(DataField(ctA))),
   FrameControl(Accept(DataEmpty)), FrameControl(Accept(DataField(ctB))),
   FrameControl(Ready(DataFields(<<ctA, ctB>>))),
   FrameControl(Start(DataField(ct256))),
   FrameControl(Ready(DataFields(<<ct256, ct236>>))),
   FrameControl(Ready(DataFields(<<ct256, ct237>>)))}

\* a field with a tag that is not CONTENT_TYPE
UnknownField == RawField(2, 1, <<7>>)

\* control frames whose body holds a field with an unknown tag, and the
\* frames they are if that field is skipped
UnknownTagInputs ==
  {[bytes |-> RawControl(22, FSTRM_CONTROL_READY, UnknownField \o Field_encode(ctA)),
    frame |-> FrameControl(Ready(DataField(ctA)))],
   [bytes |-> RawControl(23, FSTRM_CONTROL_ACCEPT, Field_encode(ctB) \o UnknownField),
    frame |-> FrameControl(Accept(DataField(ctB)))]}

\* START with a declared body of 16 bytes: three bytes follow its field
PaddedStart == RawControl(16, FSTRM_CONTROL_START, Field_encode(ctA) \o <<7, 7, 7>>)

\* bytes of the peer that are no encoding of a Frame
RawInputs ==
  {<<>>,
   \* STOP and FINISH with a body, unknown control types
   RawControl(8, FSTRM_CONTROL_STOP, <<7, 7, 7, 7>>),
   RawControl(5, FSTRM_CONTROL_FINISH, <<7>>),
   RawControl(6, 9, <<7, 7>>),
   RawControl(4, 9, <<>>),
   \* START with a field of unknown tag, with an over-long content type
   RawControl(13, FSTRM_CONTROL_START, UnknownField),
   RawControl(269, FSTRM_CONTROL_START, RawField(1, 257, Bytes(257))),
   \* a field whose declared length runs past the declared body
   RawControl(12, FSTRM_CONTROL_START, RawField(1, 2, <<>>)),
   RawControl(12, FSTRM_CONTROL_READY, RawField(1, 2, <<>>)),
   RawControl(13, FSTRM_CONTROL_ACCEPT, RawField(1, 2, <<97>>)),
   \* declared body lengths around the bounds of the length check
   RawControl(3, 0, <<>>),
   U32(0) \o U32(0),
   RawControl(513, FSTRM_CONTROL_STOP, <<>>),
   RawControl(FRAME_LENGTH_MAX, FSTRM_CONTROL_START, Field_encode(ctA) \o Bytes(499)),
   PaddedStart}
    \cup {u.bytes : u \in UnknownTagInputs}

\* the encodings of frames cut before their last byte
TruncatedFrames ==
  {FrameData(payload2), FrameControl(Stop), FrameControl(Start(DataField(ctB)))}
Truncations ==
  UNION {{Take(Frame_encode(f), k) : k \in 1..(Len(Frame_encode(f)) - 1)} :
           f \in TruncatedFrames}
    \cup {Take(PaddedStart, k) : k \in 21..(Len(PaddedStart) - 1)}

\* the reads of a history
Reads(h) == SelectSeq(h, LAMBDA e : e.op = "read")

CodecInit ==
  /\ mode = "codec"
  /\ content_types = <<>>
  /\ sent = <<>>
  /\ wire \in RawInputs \cup Truncations
  /\ \E c \in Chunks : rd = [inp |-> wire, nbuf |-> 0, chunk |-> c]
  /\ out = <<>>
  /\ wok = TRUE
  /\ phase = "Codec"
  /\ variant = "None"
  /\ content_type = None
  /\ error = NoError
  /\ log = <<>>
  /\ results = <<>>

\* frame.encode(&mut writer), the writer being the other end of the transport
Encode(f) ==
  /\ wok
  /\ Reads(log) = <<>>
  /\ Len(sent) < (IF Len(wire) = Len(out) THEN MaxEncode ELSE 1)
  /\ LET written(bytes) ==
           /\ out' = out \o bytes
           /\ wire' = wire \o bytes
           /\ rd' = [rd EXCEPT !.inp = @ \o bytes]
     IN written(Frame_encode(f))
  /\ sent' = Append(sent, f)
  /\ log' = Append(log, WriteEvent(f, wok))
  /\ error' = NoError
  /\ UNCHANGED <<mode, content_types, wok, phase, variant, content_type, results>>

\* reader.read_frame()
ReadFrame ==
  /\ Len(Reads(log)) < MaxReads
  /\ LET read(f) ==
           /\ rd' = f.r
           /\ log' = Append(log, ReadEvent(f))
     IN read(read_frame(rd))
  /\ UNCHANGED <<mode, content_types, sent, wire, out, wok, phase, variant,
                 content_type, error, results>>

CodecNext == (\E f \in CodecFrames : Encode(f)) \/ ReadFrame

SpecCodec == CodecInit /\ [][CodecNext]_vars

(***************************************************************************)
(* Properties.                                                             *)
(***************************************************************************)
Range(s) == {s[i] : i \in 1..Len(s)}

IsControl(f, type) == f.tag = "Control" /\ f.control.type = type

\* the content types of the fields of a control frame
TypesOf(f) == Range(f.control.data.fields)

\* the negotiated set of an allow-list L and an offer P
Negotiated(L, P) == IF L = {} THEN P ELSE L \cap P

\* build has returned
Built == phase # "Ready"

\* build has returned a reader
Established == phase \in {"Started", "Dropped"}

\* a handshake that began with the READY of the peer
ReadyFirst == mode = "bidi" /\ Built /\ sent # <<>> /\ IsControl(sent[1], "Ready")

\* the reads and writes of build: log[1..HandshakeLen]
HandshakeLen == IF variant = "BiDirectional" THEN 3 ELSE 1

\* the read of the k-th call of next
ReadOf(k) == log[HandshakeLen + k]

\* the frames of sent that follow the handshake
Stream == SubSeq(sent, (IF IsControl(sent[1], "Ready") THEN 3 ELSE 2), Len(sent))

\* the number of data frames at the head of a sequence of frames
RECURSIVE LeadingData(_)
LeadingData(fs) ==
  IF fs # <<>> /\ Head(fs).tag = "Data" THEN 1 + LeadingData(Tail(fs)) ELSE 0

\* C1: every ACCEPT written by a bi-directional build carries exactly the
\* negotiated set of the allow-list and of the offer of the READY: their
\* intersection, or the whole offer when the allow-list is empty.
C1_AcceptCarriesNegotiated ==
  ReadyFirst =>
    \A i \in 1..Len(log) :
      (log[i].op = "write" /\ log[i].err = NoError /\ IsControl(log[i].frame, "Accept"))
        => TypesOf(log[i].frame) = Negotiated(Range(content_types), TypesOf(sent[1]))

\* C2: when the peer sends READY and then a START with no content type or
\* with one of the negotiated set, the bi-directional handshake succeeds
\* exactly if the negotiated set is not empty; with an empty negotiated set
\* it fails with the error of a content-type mismatch without reading START.
C2_SucceedsIffNegotiated ==
  LET N == Negotiated(Range(content_types), TypesOf(sent[1]))
  IN ( /\ ReadyFirst /\ (wok \/ Established)
       /\ Len(sent) >= 2 /\ IsControl(sent[2], "Start") /\ TypesOf(sent[2]) \subseteq N ) =>
       /\ Established <=> N # {}
       /\ N = {} =>
            /\ phase = "Failed" /\ error = TodoError
            /\ \A i \in 2..Len(log) : log[i].op # "read"

\* C3: a bi-directional handshake accepts a START that carries a content
\* type only if the type is in the negotiated set, and fails with the error
\* of a content-type mismatch when it is not (unless the negotiated set and
\* the allow-list are both empty).
C3_StartTypeInNegotiated ==
  LET N == Negotiated(Range(content_types), TypesOf(sent[1]))
  IN ( /\ ReadyFirst /\ (wok \/ Established)
       /\ Len(sent) >= 2 /\ IsControl(sent[2], "Start")
       /\ ~(N = {} /\ content_types = <<>>) ) =>
       /\ (Established /\ content_type.some) => content_type.val \in N
       /\ ~(TypesOf(sent[2]) \subseteq N) => (phase = "Failed" /\ error = TodoError)

\* C4: when the first frame is START, build succeeds exactly if START has no
\* content type, or the allow-list is empty, or the content type is in the
\* allow-list; the reader then exposes that content type (or none);
\* otherwise build fails with TodoError and makes no reader.
C4_UniHandshake ==
  (Built /\ sent # <<>> /\ IsControl(sent[1], "Start")) =>
    LET t == sent[1].control.data
        allowed == t.kind = "Empty" \/ content_types = <<>>
                     \/ t.fields[1] \in Range(content_types)
    IN IF allowed
         THEN /\ Established /\ error = NoError
              /\ variant = (IF mode = "uni" THEN "Base" ELSE "UniDirectional")
              /\ content_type = (IF t.kind = "Empty" THEN None ELSE Some(t.fields[1]))
         ELSE /\ phase = "Failed" /\ error = TodoError /\ variant = "None"

C4_Witness ==
  /\ mode = "uni" /\ phase = "Started"
  /\ content_types = <<ctA, ctB>>
  /\ content_type = Some(ctB)

\* C5: a bi-directional reader exists only after READY was read, then
\* ACCEPT written, then START read, in this order; nothing is written
\* before READY was read; after READY, START is read only after ACCEPT
\* was written.
C5_HandshakeOrder ==
  /\ variant = "BiDirectional" =>
       /\ Len(log) >= 3
       /\ log[1].op = "read" /\ log[1].err = NoError /\ IsControl(log[1].frame, "Ready")
       /\ log[2].op = "write" /\ log[2].err = NoError /\ IsControl(log[2].frame, "Accept")
       /\ log[3].op = "read" /\ log[3].err = NoError /\ IsControl(log[3].frame, "Start")
  /\ \A i \in 1..Len(log) :
       log[i].op = "write" =>
         \E j \in 1..(i - 1) :
           log[j].op = "read" /\ log[j].err = NoError /\ IsControl(log[j].frame, "Ready")
  /\ \A i \in 2..Len(log) :
       ( /\ IsControl(log[1].frame, "Ready")
         /\ log[i].op = "read" /\ IsControl(log[i].frame, "Start") ) =>
         \E j \in 1..(i - 1) :
           log[j].op = "write" /\ log[j].err = NoError /\ IsControl(log[j].frame, "Accept")
  /\ out = Wire(Writes(log))

C5_Witness ==
  /\ phase = "Started" /\ variant = "BiDirectional"
  /\ content_types = <<ctA, ctB>>
  /\ out = Frame_encode(FrameControl(Accept(DataField(ctB))))
  /\ content_type = Some(ctB)

\* C6: on a stream START, Data(p1), ..., Data(pn), STOP the k-th call of
\* next yields pk for k <= n and the call after them yields None.
C6_PayloadsInWireOrder ==
  Established =>
    LET n == LeadingData(Stream)
    IN \A k \in 1..Len(results) :
         /\ k <= n => results[k] = YieldPayload(Stream[k].payload)
         /\ (k = n + 1 /\ Len(Stream) > n /\ IsControl(Stream[k], "Stop"))
              => results[k] = YieldNone

C6_Witness ==
  /\ Established
  /\ Stream = <<FrameData(payload2), FrameData(payload1), FrameControl(Stop)>>
  /\ results = <<YieldPayload(payload2), YieldPayload(payload1), YieldNone>>

\* C7: once next has returned None for a STOP, every later call of next
\* returns None.
C7_NoneAfterStop ==
  \A i \in 1..Len(results) : \A j \in (i + 1)..Len(results) :
    results[i] = YieldNone => results[j] = YieldNone

\* C8: a call of next that reads a FINISH control frame ends the stream
\* cleanly, as one that reads STOP does: it returns None.
C8_FinishEndsCleanly ==
  Established =>
    \A k \in 1..Len(results) :
      (ReadOf(k).err = NoError /\ IsControl(ReadOf(k).frame, "Finish"))
        => results[k] = YieldNone

\* C9: a call of next that reads an ACCEPT, START or READY control frame
\* yields the error TodoError; a build whose awaited control frame (START,
\* or READY or START for a bi-directional builder) is a data frame or
\* another control frame fails with TodoError.
C9_UnexpectedControl ==
  /\ Established =>
       \A k \in 1..Len(results) :
         ( /\ ReadOf(k).err = NoError /\ ReadOf(k).frame.tag = "Control"
           /\ ReadOf(k).frame.control.type \in {"Accept", "Start", "Ready"} )
           => results[k] = YieldErr(TodoError)
  /\ (Built /\ log[1].err = NoError /\ ~IsControl(log[1].frame, "Start")
        /\ (mode = "uni" \/ ~IsControl(log[1].frame, "Ready")))
       => (phase = "Failed" /\ error = TodoError /\ Len(log) = 1)
  /\ (Built /\ mode = "bidi" /\ Len(log) >= 3 /\ IsControl(log[1].frame, "Ready")
        /\ log[3].err = NoError /\ ~IsControl(log[3].frame, "Start"))
       => (phase = "Failed" /\ error = TodoError /\ Len(log) = 3)

C9_Witness ==
  /\ phase = "Started" /\ variant = "BiDirectional"
  /\ Len(results) = 2
  /\ results[1] = YieldPayload(payload1)
  /\ IsControl(ReadOf(2).frame, "Accept")
  /\ results[2] = YieldErr(TodoError)

\* C10: when a bi-directional reader is dropped and the transport accepts
\* writes, FINISH is the last frame written, whether or not STOP was read;
\* a uni-directional reader and a uni-directional builder write nothing.
C10_FinishOnDrop ==
  /\ (phase = "Dropped" /\ variant = "BiDirectional" /\ wok) =>
       /\ log[Len(log)] = WriteEvent(FrameControl(Finish), TRUE)
       /\ Len(Writes(log)) = 2
       /\ out = Frame_encode(Writes(log)[1]) \o Frame_encode(FrameControl(Finish))
  /\ (mode = "uni" \/ variant \in {"Base", "UniDirectional"}) =>
       /\ out = <<>>
       /\ \A i \in 1..Len(log) : log[i].op # "write"

C10_Witness ==
  /\ phase = "Dropped" /\ variant = "BiDirectional"
  /\ \A k \in 1..Len(results) : results[k] # YieldNone
  /\ Len(results) = 1
  /\ out = Frame_encode(FrameControl(Accept(DataField(ctA))))
             \o Frame_encode(FrameControl(Finish))

\* C11: a bi-directional session that wrote ACCEPT writes FINISH before it
\* is gone, also when the handshake fails after ACCEPT (START missing,
\* replaced by another frame, or with a rejected content type).
C11_FinishOnEveryExit ==
  ( /\ mode = "bidi" /\ phase \in {"Failed", "Dropped"} /\ wok
    /\ Writes(log) # <<>> ) =>
    Writes(log)[Len(Writes(log))] = FrameControl(Finish)

\* C12: when the write of FINISH fails while a bi-directional reader is
\* dropped, the drop completes, nothing is written and no error reaches the
\* caller.
C12_FinishFailureSuppressed ==
  (phase = "Dropped" /\ variant = "BiDirectional" /\ ~wok) =>
    /\ log[Len(log)] = WriteEvent(FrameControl(Finish), FALSE)
    /\ error = NoError
    /\ Len(Writes(log)) = 1 /\ IsControl(Writes(log)[1], "Accept")
    /\ out = Frame_encode(Writes(log)[1])

C12_Witness ==
  /\ phase = "Dropped" /\ variant = "BiDirectional" /\ ~wok
  /\ log[Len(log)].op = "write" /\ log[Len(log)].err = OtherError
  /\ IsControl(log[Len(log)].frame, "Finish")
  /\ Len(results) = 1

\* C13: once a call of next has yielded an error, no later call of next
\* yields a payload or reads another frame.
C13_TerminatesOnError ==
  Established =>
    \A i \in 1..Len(results) : \A j \in (i + 1)..Len(results) :
      results[i].kind = "Err" =>
        (results[j].kind # "Payload" /\ ReadOf(j).err # NoError)

\* a frame within the bounds of the decoder
ValidFrame(f) == f.tag = "Data" \/ Control_body_size(f.control) <= FRAME_LENGTH_MAX

\* the transport holds the encodings of valid frames only
EncodedOnly == Len(wire) = Len(out) /\ \A i \in 1..Len(sent) : ValidFrame(sent[i])

\* C14: round trip: the k-th read_frame on the bytes written by Frame::encode
\* for the frames f1, f2, ... yields fk and leaves exactly the bytes of the
\* frames after fk.
C14_RoundTrip ==
  (mode = "codec" /\ EncodedOnly) =>
    LET n == Len(Reads(log))
    IN /\ \A k \in 1..Min(n, Len(sent)) :
            Reads(log)[k].err = NoError /\ Reads(log)[k].frame = sent[k]
       /\ n <= Len(sent) => rd.inp = Wire(SubSeq(sent, n + 1, Len(sent)))

\* the bytes of a list of fields: tag, length word and body of each
RECURSIVE FieldsBytes(_)
FieldsBytes(fields) ==
  IF fields = <<>> THEN 0 ELSE 8 + Len(Head(fields)) + FieldsBytes(Tail(fields))

\* the valid control frames that were encoded
EncodedControls == {i \in 1..Len(sent) : sent[i].tag = "Control" /\ ValidFrame(sent[i])}

\* C15, the escape counted in: Control::size of a valid control frame is the
\* number of bytes written by Frame::encode for it, and both are 8 + 4 + the
\* sum of (8 + body length) over its fields.
C15_SizeIsFrameLength ==
  mode = "codec" =>
    \A i \in EncodedControls :
      /\ Control_size(sent[i].control) = Len(Frame_encode(sent[i]))
      /\ Control_size(sent[i].control) = 8 + 4 + FieldsBytes(sent[i].control.data.fields)

\* C15: Control::size of a valid control frame is the number of
\* bytes written by Control::encode, the length word and the body:
\* 4 + 4 + the sum of (8 + body length) over its fields; Frame::encode writes
\* the 4 bytes of the escape more, 8 + 4 + the sum.
C15_SizeIsControlLength ==
  mode = "codec" =>
    /\ out = Wire(sent)
    /\ \A i \in EncodedControls :
         /\ Control_size(sent[i].control) = Len(Control_encode(sent[i].control))
         /\ Control_size(sent[i].control)
              = 4 + 4 + FieldsBytes(sent[i].control.data.fields)
         /\ Len(Frame_encode(sent[i])) = Control_size(sent[i].control) + FSTRM_LENGTH_SIZE
         /\ Len(Frame_encode(sent[i]))
              = 8 + 4 + FieldsBytes(sent[i].control.data.fields)

C15_Witness ==
  /\ mode = "codec"
  /\ sent = <<FrameControl(Ready(DataFields(<<ctA, ctB>>)))>>
  /\ Len(out) = 31
  /\ Control_size(sent[1].control) = 27

\* C16: Frame::encode of a data frame with an empty payload returns an error
\* and writes nothing.
C16_EmptyDataRejected ==
  mode = "codec" =>
    /\ \A i \in 1..Len(log) :
         (log[i].op = "write" /\ log[i].frame = FrameData(<<>>)) => log[i].err # NoError
    /\ sent = <<FrameData(<<>>)>> => out = <<>>

\* the wire begins with the escape and the length word of a control frame
FirstIsControl == Len(wire) >= 8 /\ Take(wire, 4) = U32(0)

\* the declared body length of the first frame, a control frame, and the
\* words that follow it
DeclaredLen == FromU32(SubSeq(wire, 5, 8))
DeclaredType == FromU32(SubSeq(wire, 9, 12))
FirstTag == FromU32(SubSeq(wire, 13, 16))
FirstFieldLen == FromU32(SubSeq(wire, 17, 20))

\* the first call of read_frame has returned; the bytes consumed so far
FirstRead == Reads(log)[1]
Consumed == Len(wire) - Len(rd.inp)

\* C17: after a FrameFormatError found inside the body of a control frame
\* (length check passed, body wholly on the wire), read_frame has consumed
\* exactly the escape, the length word and the declared body.
C17_AlignedAfterFrameFormat ==
  ( /\ mode = "codec" /\ Len(Reads(log)) = 1 /\ FirstIsControl
    /\ DeclaredLen >= 4 /\ DeclaredLen <= FRAME_LENGTH_MAX
    /\ Len(wire) >= 8 + DeclaredLen
    /\ FirstRead.err = FrameFormatError ) =>
    Consumed = 8 + DeclaredLen

\* C18: an ACCEPT or READY whose body holds a field with an unknown tag
\* decodes to the frame with its CONTENT_TYPE fields, the unknown field
\* being skipped.
C18_UnknownTagSkipped ==
  (mode = "codec" /\ Len(Reads(log)) >= 1) =>
    \A u \in UnknownTagInputs :
      (Len(wire) >= Len(u.bytes) /\ Take(wire, Len(u.bytes)) = u.bytes)
        => (FirstRead.err = NoError /\ FirstRead.frame = u.frame)

\* C19: a START, ACCEPT or READY whose first field has an encoded size
\* (8 + its declared length) greater than the rest of the declared body
\* fails with FrameFormatError.
C19_FieldPastBody ==
  ( /\ mode = "codec" /\ Len(Reads(log)) >= 1 /\ FirstIsControl
    /\ DeclaredLen >= 12 /\ DeclaredLen <= FRAME_LENGTH_MAX
    /\ Len(wire) >= 8 + DeclaredLen
    /\ DeclaredType \in {FSTRM_CONTROL_ACCEPT, FSTRM_CONTROL_START, FSTRM_CONTROL_READY}
    /\ FirstTag = FSTRM_CONTROL_FIELD_CONTENT_TYPE
    /\ FirstFieldLen <= FIELD_CONTENT_TYPE_LENGTH_MAX
    /\ 8 + FirstFieldLen > DeclaredLen - 4 ) =>
    FirstRead.err = FrameFormatError

\* C20: a control frame with a declared body length above 512 or below 4
\* fails with FrameFormatError; a declared length of exactly 4 and of
\* exactly 512 passes the length check and the frame is decoded.
C20_LengthCheck ==
  (mode = "codec" /\ Len(Reads(log)) >= 1 /\ FirstIsControl) =>
    /\ (DeclaredLen > 512 \/ DeclaredLen < 4) => FirstRead.err = FrameFormatError
    /\ (DeclaredLen = 4 /\ Len(wire) >= 12 /\ DeclaredType \in 1..5) =>
         /\ FirstRead.err = NoError
         /\ FirstRead.frame.tag = "Control"
         /\ Control_discriminant(FirstRead.frame.control) = DeclaredType
         /\ FirstRead.frame.control.data = DataEmpty
    /\ (DeclaredLen = 512 /\ Len(wire) = Len(out)) =>
         (FirstRead.err = NoError /\ FirstRead.frame = sent[1])
    /\ (DeclaredLen = 512 /\ Len(wire) # Len(out)) =>
         (FirstRead.err = NoError /\ FirstRead.frame = FrameControl(Start(DataField(ctA))))

C20_Witness ==
  /\ mode = "codec" /\ Len(Reads(log)) = 1 /\ FirstIsControl
  /\ DeclaredLen = 512
  /\ sent = <<FrameControl(Ready(DataFields(<<ct256, ct236>>)))>>
  /\ FirstRead.err = NoError /\ FirstRead.frame = sent[1]
  /\ rd.inp = <<>>

\* C21: a CONTENT_TYPE field with a declared length of exactly 256 is
\* accepted and its 256 bytes are the content type; with a declared length
\* above 256 the frame fails with FrameFormatError and no byte of the value
\* is read.
C21_ContentTypeLengthBound ==
  ( /\ mode = "codec" /\ Len(Reads(log)) = 1 /\ FirstIsControl
    /\ DeclaredLen >= 12 /\ DeclaredLen <= FRAME_LENGTH_MAX
    /\ Len(wire) >= 20
    /\ DeclaredType \in {FSTRM_CONTROL_ACCEPT, FSTRM_CONTROL_START, FSTRM_CONTROL_READY}
    /\ FirstTag = FSTRM_CONTROL_FIELD_CONTENT_TYPE ) =>
    /\ (FirstFieldLen = 256 /\ Len(wire) = Len(out)) =>
         /\ FirstRead.err = NoError
         /\ FirstRead.frame.control.data.fields[1] = SubSeq(wire, 21, 276)
    /\ FirstFieldLen > 256 =>
         (FirstRead.err = FrameFormatError /\ Consumed = 20)

C21_Witness ==
  /\ mode = "codec" /\ Len(Reads(log)) = 1
  /\ sent = <<FrameControl(Start(DataField(ct256)))>>
  /\ FirstFieldLen = 256
  /\ FirstRead.err = NoError /\ FirstRead.frame = sent[1]

\* the wire ends inside the header or the payload of a data frame, inside
\* the escape or the length word of a control frame, or inside the declared
\* body of a control frame that is well formed as far as it goes
EndsInsideFrame ==
  \/ Len(wire) \in 1..3
  \/ Len(wire) >= 4 /\ Take(wire, 4) # U32(0) /\ Len(wire) < 4 + FromU32(Take(wire, 4))
  \/ Len(wire) \in 4..7 /\ Take(wire, 4) = U32(0)
  \/ \E b \in {Frame_encode(f) : f \in {g \in CodecFrames : g.tag = "Control" /\ ValidFrame(g)}}
             \cup {PaddedStart} :
       /\ Len(wire) >= 8 /\ Len(wire) < Len(b)
       /\ wire = Take(b, Len(wire))

\* C22: when the input ends inside a frame, read_frame fails with the io
\* error of the end of input: it returns no frame, hence no shortened
\* payload and no clean end.
C22_TruncatedInput ==
  (mode = "codec" /\ Len(Reads(log)) >= 1 /\ EndsInsideFrame) =>
    (FirstRead.err = OtherError /\ FirstRead.frame = NoFrame)

\* C23: in every ACCEPT written by a bi-directional build each content type
\* appears at most once, whatever the READY of the peer lists.
C23_AcceptTypesDistinct ==
  \A i \in 1..Len(log) :
    (log[i].op = "write" /\ IsControl(log[i].frame, "Accept")) =>
      LET fields == log[i].frame.control.data.fields
      IN \A a \in 1..Len(fields) : \A b \in 1..Len(fields) :
           a # b => fields[a] # fields[b]

\* C24: a START whose field has an encoded size s below the rest L of the
\* declared body decodes to START with that field and exactly the L - s
\* bytes after the field are skipped; a START with nothing after its type
\* decodes to START without a field.
C24_StartTrailingBytes ==
  ( /\ mode = "codec" /\ Len(Reads(log)) = 1 /\ FirstIsControl
    /\ DeclaredLen >= 4 /\ DeclaredLen <= FRAME_LENGTH_MAX
    /\ Len(wire) >= 8 + DeclaredLen
    /\ DeclaredType = FSTRM_CONTROL_START ) =>
    /\ DeclaredLen = 4 =>
         /\ FirstRead.err = NoError
         /\ FirstRead.frame = FrameControl(Start(DataEmpty))
         /\ Consumed = 12
    /\ ( /\ DeclaredLen >= 12
         /\ FirstTag = FSTRM_CONTROL_FIELD_CONTENT_TYPE
         /\ FirstFieldLen <= FIELD_CONTENT_TYPE_LENGTH_MAX
         /\ 8 + FirstFieldLen < DeclaredLen - 4 ) =>
         /\ FirstRead.err = NoError
         /\ FirstRead.frame
              = FrameControl(Start(DataField(SubSeq(wire, 21, 20 + FirstFieldLen))))
         /\ Consumed = 8 + DeclaredLen

\* C25: one call of read_frame on a control frame consumes no byte beyond
\* the declared body: at most the escape, the length word and the declared
\* length.
C25_NoReadPastBody ==
  ( /\ mode = "codec" /\ Len(Reads(log)) = 1 /\ FirstIsControl
    /\ DeclaredLen >= 4 /\ DeclaredLen <= FRAME_LENGTH_MAX ) =>
    Consumed <= 8 + DeclaredLen

\* C26: all that a bi-directional builder and its reader ever write is one
\* ACCEPT, then at most one FINISH: no data frame, no second ACCEPT, no
\* second FINISH, no FINISH before ACCEPT.
C26_WritesAcceptThenFinish ==
  mode = "bidi" =>
    LET w == Writes(log)
    IN /\ Len(w) <= 2
       /\ Len(w) >= 1 => IsControl(w[1], "Accept")
       /\ Len(w) = 2 => w[2] = FrameControl(Finish)
       /\ out = Wire(w)

C26_Witness ==
  /\ mode = "bidi" /\ phase = "Dropped"
  /\ content_types = <<ctB>>
  /\ Writes(log) = <<FrameControl(Accept(DataField(ctB))), FrameControl(Finish)>>
  /\ Len(results) = 2

\* C27: a bi-directional builder whose first frame is START makes a reader
\* that writes nothing: no ACCEPT in build, no FINISH when it is dropped.
C27_StartFirstWritesNothing ==
  (mode = "bidi" /\ Built /\ log[1].err = NoError /\ IsControl(log[1].frame, "Start")) =>
    /\ out = <<>>
    /\ \A i \in 1..Len(log) : log[i].op # "write"
    /\ variant \in {"UniDirectional", "None"}

C27_Witness ==
  /\ mode = "bidi" /\ phase = "Dropped" /\ variant = "UniDirectional"
  /\ IsControl(sent[1], "Start")
  /\ Len(results) >= 1
  /\ out = <<>>

\* C28: every ACCEPT written by a bi-directional build has a body of at
\* most FRAME_LENGTH_MAX bytes and fields of at most
\* FIELD_CONTENT_TYPE_LENGTH_MAX bytes.
C28_AcceptWithinBounds ==
  \A i \in 1..Len(log) :
    (log[i].op = "write" /\ IsControl(log[i].frame, "Accept")) =>
      /\ Control_body_size(log[i].frame.control) <= FRAME_LENGTH_MAX
      /\ \A k \in 1..Len(log[i].frame.control.data.fields) :
           Len(log[i].frame.control.data.fields[k]) <= FIELD_CONTENT_TYPE_LENGTH_MAX

C28_Witness ==
  /\ mode = "bidi" /\ phase = "Started"
  /\ sent[1] = BigReady
  /\ out = Frame_encode(FrameControl(Accept(DataFields(<<ct256, ct236>>))))
  /\ Len(out) = 8 + FRAME_LENGTH_MAX

====
